---- MODULE Spec2Model ----
(***************************************************************************)
(* Model of src/summarizer.py, function main(): the outline (table of      *)
(* contents) of a PDF is turned into a list of Parts, each with Chapters   *)
(* (a title-keyed dict), Sections of Chapters and loose Sections; page     *)
(* ranges are resolved; the pages of every Part are visited in order and   *)
(* the knowledge extracted from a page is routed to one node; the Part is  *)
(* dumped into the title-keyed knowledge base; finally one markdown unit   *)
(* per Part, Chapter and non-empty Section is generated.                   *)
(*                                                                         *)
(* A title is a sequence of tokens (words and whitespace tokens), so that  *)
(* the two regular expressions are evaluated on the title's text.  A       *)
(* Python dict is a sequence of records in insertion order, keyed by the   *)
(* field "title".  A variable that is None or a dict in the source is a    *)
(* sequence of length 0 or 1.  The field "end" is None until resolved.     *)
(* A knowledge fragment is <<part position, page index, position>>.        *)
(***************************************************************************)
EXTENDS Integers, Sequences, FiniteSets, TLC

\* ----------------------------------------------------------------- bounds
MaxToc == 3
MaxPages == 2
MaxFrags == 2
MaxSecs == 3
MaxChain == 4

\* ------------------------------------------------------ program constants
TEST_PAGES == 60

None == "None"

\* ------------------------------------------------------------------ titles
WS == " "
PartI == <<"Part", WS, "I">>
PartII == <<"PART", WS, "II">>
Chapter1 == <<"Chapter", WS, "1">>
Chapter2 == <<"chapter", WS, "2">>
Intro == <<"Introduction">>
FallbackTitle == <<"Part", WS, "I", WS, "(Entire", WS, "PDF)">>

Digits == {"0", "1", "2", "3", "4", "5", "6", "7", "8", "9"}

\* re.IGNORECASE on the words the two patterns name
LowerWord(tok) ==
    CASE tok \in {"Part", "PART", "part"} -> "part"
      [] tok \in {"Chapter", "CHAPTER", "chapter"} -> "chapter"
      [] OTHER -> tok

\* the number of leading whitespace tokens of title from position k on
RECURSIVE SkipWS(_, _)
SkipWS(title, k) ==
    IF k <= Len(title) /\ title[k] = WS THEN SkipWS(title, k + 1) ELSE k

\* PART_PATTERN = ^\s*Part\s+  (ignoring case)
PART_PATTERN(title) ==
    LET k == SkipWS(title, 1)
    IN  /\ k + 1 <= Len(title)
        /\ LowerWord(title[k]) = "part"
        /\ title[k + 1] = WS

\* CHAPTER_PATTERN = ^\s*Chapter\s+\d+  (ignoring case)
CHAPTER_PATTERN(title) ==
    LET k == SkipWS(title, 1)
    IN  /\ k + 1 <= Len(title)
        /\ LowerWord(title[k]) = "chapter"
        /\ title[k + 1] = WS
        /\ LET d == SkipWS(title, k + 1)
           IN  d <= Len(title) /\ title[d] \in Digits

\* ----------------------------------------------------------------- outline
\* the entries an outline is drawn from: [level, title, page]
TocEntries(total) ==
    { [level |-> e[1], title |-> e[2], page |-> p] :
        e \in { <<1, PartI>>, <<1, PartII>>, <<2, Chapter1>>, <<2, Chapter2>>,
                <<3, Intro>> },
        p \in 1..total }

SeqsUpTo(S, n) == UNION { [1..k -> S] : k \in 0..n }

\* toc = doc.get_toc(); if not toc: toc = [[1, "Part I (Entire PDF)", 1]]
GetToc(raw) ==
    IF raw = <<>> THEN << [level |-> 1, title |-> FallbackTitle, page |-> 1] >>
    ELSE raw

\* the three branches of the building loop
IsPartEntry(e) == e.level = 1 /\ PART_PATTERN(e.title)
IsChapterEntry(e, cur) == e.level = 2 /\ CHAPTER_PATTERN(e.title) /\ Len(cur) > 0

\* ------------------------------------------------------------------- dicts
HasKey(d, k) == \E j \in 1..Len(d) : d[j].title = k
KeyIndex(d, k) == CHOOSE j \in 1..Len(d) : d[j].title = k
\* d[k] = v: an existing key keeps its position and gets the new value
DictSet(d, k, v) ==
    IF HasKey(d, k) THEN [d EXCEPT ![KeyIndex(d, k)] = v] ELSE Append(d, v)

\* ----------------------------------------------------------- tree building
NewPart(title, start_idx) ==
    [title |-> title, start |-> start_idx, end |-> None,
     part_knowledge |-> <<>>, chapters |-> <<>>, other_sections |-> <<>>]

NewChapter(title, start_idx) ==
    [title |-> title, start |-> start_idx, end |-> None,
     chapter_knowledge |-> <<>>, sections |-> <<>>]

NewSection(title, level, start_idx) ==
    [title |-> title, level |-> level, start |-> start_idx, end |-> None,
     knowledge |-> <<>>]

\* an Other entry under the current part: a section of the last chapter of
\* the dict if the part has chapters, else a loose section of the part
AttachSection(part, e) ==
    LET sec == NewSection(e.title, e.level, e.page - 1)
        n == Len(part.chapters)
    IN  IF n > 0
        THEN [part EXCEPT !.chapters[n].sections = Append(@, sec)]
        ELSE [part EXCEPT !.other_sections = Append(@, sec)]

\* ---------------------------------------------------------- range resolution
\* a variant that lets a section end on the page the next one starts on
ResolveSectionsOverlapping(secs, parent_end) ==
    [s \in 1..Len(secs) |->
        [secs[s] EXCEPT !.end =
            IF s + 1 <= Len(secs) THEN secs[s + 1].start ELSE parent_end]]

ResolveSections(secs, parent_end) ==
    [s \in 1..Len(secs) |->
        [secs[s] EXCEPT !.end =
            IF s + 1 <= Len(secs) THEN secs[s + 1].start - 1 ELSE parent_end]]

ResolveChapters(chs, part_end) ==
    [c \in 1..Len(chs) |->
        LET c_end == IF c + 1 <= Len(chs) THEN chs[c + 1].start - 1 ELSE part_end
        IN  [chs[c] EXCEPT !.end = c_end,
                           !.sections = ResolveSections(@, c_end)]]

ResolveParts(ps, total) ==
    [idx \in 1..Len(ps) |->
        LET p_end == IF idx + 1 <= Len(ps) THEN ps[idx + 1].start - 1 ELSE total - 1
        IN  [ps[idx] EXCEPT !.end = p_end,
                            !.chapters = ResolveChapters(@, p_end),
                            !.other_sections = ResolveSections(@, p_end)]]

\* ------------------------------------------------------------------ routing
Contains(node, p) == node.start <= p /\ p <= node.end

Max(S) == CHOOSE x \in S : \A y \in S : y <= x
Min(S) == CHOOSE x \in S : \A y \in S : x <= y

\* for (ch_title, ch_data) in reversed(chapters_list): the first chapter met
\* whose range contains the page, 0 when there is none
FindChapter(chapters_list, p) ==
    LET hits == { c \in 1..Len(chapters_list) : Contains(chapters_list[c], p) }
    IN  IF hits = {} THEN 0 ELSE Max(hits)

\* for sub_sec in ch_data["sections"]: the first section met, 0 when none
FindSubSection(sections, p) ==
    LET hits == { s \in 1..Len(sections) : Contains(sections[s], p) }
    IN  IF hits = {} THEN 0 ELSE Min(hits)

\* for sec in reversed(other_list): the first section met, 0 when none
FindOther(other_list, p) ==
    LET hits == { s \in 1..Len(other_list) : Contains(other_list[s], p) }
    IN  IF hits = {} THEN 0 ELSE Max(hits)

\* a variant that never looks for a sub-section of the chapter
RouteNoSubSection(part_info, p, knowledge) ==
    LET c == FindChapter(part_info.chapters, p)
    IN  IF c # 0
        THEN [part_info EXCEPT !.chapters[c].chapter_knowledge = @ \o knowledge]
        ELSE LET o == FindOther(part_info.other_sections, p)
             IN  IF o # 0
                 THEN [part_info EXCEPT
                         !.other_sections[o].knowledge = @ \o knowledge]
                 ELSE [part_info EXCEPT !.part_knowledge = @ \o knowledge]

\* the part after result.knowledge of page p has been stored
Route(part_info, p, knowledge) ==
    LET c == FindChapter(part_info.chapters, p)
    IN  IF c # 0
        THEN LET s == FindSubSection(part_info.chapters[c].sections, p)
             IN  IF s # 0
                 THEN [part_info EXCEPT
                         !.chapters[c].sections[s].knowledge = @ \o knowledge]
                 ELSE [part_info EXCEPT
                         !.chapters[c].chapter_knowledge = @ \o knowledge]
        ELSE LET o == FindOther(part_info.other_sections, p)
             IN  IF o # 0
                 THEN [part_info EXCEPT
                         !.other_sections[o].knowledge = @ \o knowledge]
                 ELSE [part_info EXCEPT !.part_knowledge = @ \o knowledge]

\* ----------------------------------------------------------- knowledge base
KbSection(sec) ==
    [title |-> sec.title, start |-> sec.start, end |-> sec.end,
     knowledge |-> sec.knowledge]

KbChapter(ch) ==
    [title |-> ch.title, start |-> ch.start, end |-> ch.end,
     chapter_knowledge |-> ch.chapter_knowledge,
     sections |-> [s \in 1..Len(ch.sections) |-> KbSection(ch.sections[s])]]

\* knowledge_base[title] = {...} at the start of a part
KbEmptyPart(part_info, p_end) ==
    [title |-> part_info.title, start |-> part_info.start, end |-> p_end,
     part_knowledge |-> <<>>, chapters |-> <<>>, other_sections |-> <<>>]

\* "Volcar a knowledge_base": kb_part filled from the part
KbDump(kb_part, part_info) ==
    [kb_part EXCEPT
        !.part_knowledge = part_info.part_knowledge,
        !.chapters = [c \in 1..Len(part_info.chapters) |->
                         KbChapter(part_info.chapters[c])],
        !.other_sections = [s \in 1..Len(part_info.other_sections) |->
                               KbSection(part_info.other_sections[s])]]

\* ------------------------------------------------------------------- export
RECURSIVE Concat(_, _)
\* the knowledge of secs[k..] one after the other (extend in a loop)
Concat(secs, k) ==
    IF k > Len(secs) THEN <<>> ELSE secs[k].knowledge \o Concat(secs, k + 1)

\* f"{n:02d}" as its two digits
Fmt02(n) == << n \div 10, n % 10 >>

README == <<"README">>

\* one call of analyze_knowledge: for part pi, in the folder of the part
\* (chapter = <<>>) or of one of its chapters (chapter = <<title>>)
Unit(pi, chapter, prefix, title, points) ==
    [part |-> pi, chapter |-> chapter, prefix |-> prefix, title |-> title,
     knowledge |-> points]

RECURSIVE SectionUnits(_, _, _, _)
\* for idx, sec in enumerate(secs, start=1): if not sec["knowledge"]: continue
SectionUnits(pi, chapter, secs, idx) ==
    IF idx > Len(secs) THEN <<>>
    ELSE (IF secs[idx].knowledge = <<>> THEN <<>>
          ELSE << Unit(pi, chapter, Fmt02(idx), secs[idx].title,
                       secs[idx].knowledge) >>)
         \o SectionUnits(pi, chapter, secs, idx + 1)

RECURSIVE ChapterUnits(_, _, _)
ChapterUnits(pi, chapters, c) ==
    IF c > Len(chapters) THEN <<>>
    ELSE LET chap_data == chapters[c]
             combined_chap == chap_data.chapter_knowledge
                                \o Concat(chap_data.sections, 1)
         IN  << Unit(pi, <<chap_data.title>>, Fmt02(0), README, combined_chap) >>
             \o SectionUnits(pi, <<chap_data.title>>, chap_data.sections, 1)
             \o ChapterUnits(pi, chapters, c + 1)

\* the calls of analyze_knowledge made for part pi, read from its kb entry
PartUnits(pi, kb_part) ==
    LET part_combined == kb_part.part_knowledge \o Concat(kb_part.other_sections, 1)
    IN  << Unit(pi, <<>>, Fmt02(0), README, part_combined) >>
        \o SectionUnits(pi, <<>>, kb_part.other_sections, 1)
        \o ChapterUnits(pi, kb_part.chapters, 1)

\* ------------------------------------------------------------------- state
VARIABLES outline, toc, total_pages, pc, i, current_part, parts, pidx, page_i,
          knowledge_base, routed, exported

vars == << outline, toc, total_pages, pc, i, current_part, parts, pidx, page_i,
           knowledge_base, routed, exported >>

limit_pages == IF TEST_PAGES # 0 THEN TEST_PAGES ELSE total_pages

\* every outline of at most MaxToc entries
ShortOutlines(total) == SeqsUpTo(TocEntries(total), MaxToc)

\* a part, a chapter and at most MaxSecs further entries under the chapter
DeepOutlines(total) ==
    { << [level |-> 1, title |-> PartI, page |-> p],
         [level |-> 2, title |-> Chapter1, page |-> c] >> \o secs :
        p \in 1..total, c \in 1..total,
        secs \in SeqsUpTo({ e \in TocEntries(total) : e.title = Intro }, MaxSecs) }

AllOutlines(total) == ShortOutlines(total) \cup DeepOutlines(total)

\* the state at "parts = []; current_part = None"
Init ==
    /\ total_pages \in 1..MaxPages
    /\ outline \in AllOutlines(total_pages)
    /\ toc = GetToc(outline)
    /\ pc = "build"
    /\ i = 1
    /\ current_part = <<>>
    /\ parts = <<>>
    /\ pidx = 1
    /\ page_i = 0
    /\ knowledge_base = <<>>
    /\ routed = <<>>
    /\ exported = <<>>

\* one iteration of "for i, (level, title, page_num) in enumerate(toc)"
BuildEntry ==
    /\ pc = "build"
    /\ i <= Len(toc)
    /\ LET e == toc[i]
           start_idx == e.page - 1
       IN  IF IsPartEntry(e)
           THEN /\ parts' = parts \o current_part
                /\ current_part' = << NewPart(e.title, start_idx) >>
           ELSE IF IsChapterEntry(e, current_part)
           THEN /\ current_part' =
                     << [current_part[1] EXCEPT !.chapters =
                           DictSet(@, e.title, NewChapter(e.title, start_idx))] >>
                /\ parts' = parts
           ELSE IF Len(current_part) > 0
           THEN /\ current_part' = << AttachSection(current_part[1], e) >>
                /\ parts' = parts
           ELSE UNCHANGED << current_part, parts >>
    /\ i' = i + 1
    /\ UNCHANGED << outline, toc, total_pages, pc, pidx, page_i, knowledge_base,
                    routed, exported >>

\* "if current_part: parts.append(current_part)" and the range resolution
Resolve ==
    /\ pc = "build"
    /\ i > Len(toc)
    /\ parts' = ResolveParts(parts \o current_part, total_pages)
    /\ pc' = IF Len(parts') > 0 THEN "part" ELSE "save"
    /\ pidx' = 1
    /\ UNCHANGED << outline, toc, total_pages, i, current_part, page_i,
                    knowledge_base, routed, exported >>

P_end(part_info) ==
    IF part_info.end <= limit_pages - 1 THEN part_info.end ELSE limit_pages - 1

\* "for part_info in parts": the part's entry of the knowledge base is reset
BeginPart ==
    /\ pc = "part"
    /\ LET part_info == parts[pidx]
       IN  /\ knowledge_base' = DictSet(knowledge_base, part_info.title,
                                        KbEmptyPart(part_info, P_end(part_info)))
           /\ page_i' = part_info.start
    /\ pc' = "pages"
    /\ UNCHANGED << outline, toc, total_pages, i, current_part, parts, pidx,
                    routed, exported >>

\* the n fragments process_page returns for page p of part pi (a page yields
\* none or MaxFrags of them)
Knowledge(pi, p, n) == [k \in 1..n |-> << pi, p, k >>]

\* one iteration of "for page_i in range(p_start, p_end + 1)"
ProcessPage ==
    /\ pc = "pages"
    /\ page_i <= P_end(parts[pidx])
    /\ page_i < limit_pages
    /\ \E has_content \in BOOLEAN, n \in {0, MaxFrags} :
         LET knowledge == Knowledge(pidx, page_i, n)
         IN  IF has_content
             THEN /\ parts' = [parts EXCEPT ![pidx] = Route(@, page_i, knowledge)]
                  /\ routed' = routed \o knowledge
             ELSE UNCHANGED << parts, routed >>
    /\ page_i' = page_i + 1
    /\ UNCHANGED << outline, toc, total_pages, pc, i, current_part, pidx,
                    knowledge_base, exported >>

\* the page loop is over: the part is dumped into the knowledge base
DumpPart ==
    /\ pc = "pages"
    /\ ~ (page_i <= P_end(parts[pidx]) /\ page_i < limit_pages)
    /\ LET part_info == parts[pidx]
           k == KeyIndex(knowledge_base, part_info.title)
       IN  knowledge_base' = [knowledge_base EXCEPT ![k] = KbDump(@, part_info)]
    /\ IF pidx < Len(parts)
       THEN pidx' = pidx + 1 /\ pc' = "part"
       ELSE pidx' = 1 /\ pc' = "export"
    /\ UNCHANGED << outline, toc, total_pages, i, current_part, parts, page_i,
                    routed, exported >>

\* one iteration of the "Generar .md" loop
ExportPart ==
    /\ pc = "export"
    /\ LET p_title == parts[pidx].title
           kb_part == knowledge_base[KeyIndex(knowledge_base, p_title)]
       IN  exported' = exported \o PartUnits(pidx, kb_part)
    /\ IF pidx < Len(parts)
       THEN pidx' = pidx + 1 /\ pc' = "export"
       ELSE pidx' = pidx /\ pc' = "save"
    /\ UNCHANGED << outline, toc, total_pages, i, current_part, parts, page_i,
                    knowledge_base, routed >>

\* save_knowledge_base(knowledge_base)
SaveKB ==
    /\ pc = "save"
    /\ pc' = "done"
    /\ UNCHANGED << outline, toc, total_pages, i, current_part, parts, pidx,
                    page_i, knowledge_base, routed, exported >>

Next ==
    \/ BuildEntry
    \/ Resolve
    \/ BeginPart
    \/ ProcessPage
    \/ DumpPart
    \/ ExportPart
    \/ SaveKB

Spec == Init /\ [][Next]_vars

\* one part followed by at most MaxChain chapter and section entries
ChapterOutlines(total) ==
    { << [level |-> 1, title |-> PartI, page |-> p] >> \o rest :
        p \in 1..total,
        rest \in SeqsUpTo({ e \in TocEntries(total) : e.level # 1 }, MaxChain) }

\* the state at "parts = []; current_part = None" for such an outline
InitChapters ==
    /\ total_pages \in 1..MaxPages
    /\ outline \in ChapterOutlines(total_pages)
    /\ toc = GetToc(outline)
    /\ pc = "build"
    /\ i = 1
    /\ current_part = <<>>
    /\ parts = <<>>
    /\ pidx = 1
    /\ page_i = 0
    /\ knowledge_base = <<>>
    /\ routed = <<>>
    /\ exported = <<>>

SpecChapters == InitChapters /\ [][Next]_vars

\* ================================================================== claims
\* the ranges of the tree are resolved (lines 316-346 have run)
Resolved == pc \in {"part", "pages", "export", "save", "done"}

Range(f) == { f[k] : k \in DOMAIN f }
Count(x, f) == Cardinality({ k \in DOMAIN f : f[k] = x })

PartIdx == 1..Len(parts)
ChapIdx(pi) == 1..Len(parts[pi].chapters)
SecIdx(pi, c) == 1..Len(parts[pi].chapters[c].sections)
OtherIdx(pi) == 1..Len(parts[pi].other_sections)

\* C1: after range resolution every Part, Chapter, Section and loose Section
\* has start <= end (an earlier sibling sharing its page with the next one is
\* clamped to end = start).
C1_StartLeEnd ==
    Resolved =>
        \A pi \in PartIdx :
            /\ parts[pi].start <= parts[pi].end
            /\ \A o \in OtherIdx(pi) :
                   parts[pi].other_sections[o].start <= parts[pi].other_sections[o].end
            /\ \A c \in ChapIdx(pi) :
                   /\ parts[pi].chapters[c].start <= parts[pi].chapters[c].end
                   /\ \A sc \in SecIdx(pi, c) :
                          parts[pi].chapters[c].sections[sc].start
                              <= parts[pi].chapters[c].sections[sc].end

Hits(nodes, p) == { k \in 1..Len(nodes) : Contains(nodes[k], p) }

\* C2: after range resolution every page index of the document lies in the
\* range of exactly one Part, of at most one Chapter of that Part and of at
\* most one Section of that Chapter.
C2_PageInOnePart ==
    Resolved =>
        \A p \in 0..(total_pages - 1) :
            /\ Cardinality(Hits(parts, p)) = 1
            /\ \A pi \in Hits(parts, p) :
                   /\ Cardinality(Hits(parts[pi].chapters, p)) <= 1
                   /\ \A c \in Hits(parts[pi].chapters, p) :
                          Cardinality(Hits(parts[pi].chapters[c].sections, p)) <= 1

NoPartEntry == \A k \in 1..Len(outline) : ~ IsPartEntry(outline[k])

\* C3: when the outline has no entry classified as Part (it is empty, or has
\* no level-1 entry matching the Part pattern), building yields exactly one
\* Part with start = 0 and end = total_pages - 1.
C3_SynthesizedPart ==
    (Resolved /\ NoPartEntry) =>
        /\ Len(parts) = 1
        /\ parts[1].start = 0
        /\ parts[1].end = total_pages - 1

\* each non-last sibling ends right before the next one starts, the last one
\* ends where the parent ends
Contiguous(nodes, parent_end) ==
    \A k \in 1..Len(nodes) :
        nodes[k].end = IF k < Len(nodes) THEN nodes[k + 1].start - 1 ELSE parent_end

\* C4: after range resolution, in every sibling list (Parts, Chapters of a
\* Part, Sections of a Chapter, loose Sections of a Part) each non-last
\* sibling's end is the next sibling's start - 1 and the last sibling's end is
\* its parent's end (total_pages - 1 for the last Part).
C4_SiblingsContiguous ==
    Resolved =>
        /\ Contiguous(parts, total_pages - 1)
        /\ \A pi \in PartIdx :
               /\ Contiguous(parts[pi].chapters, parts[pi].end)
               /\ Contiguous(parts[pi].other_sections, parts[pi].end)
               /\ \A c \in ChapIdx(pi) :
                      Contiguous(parts[pi].chapters[c].sections,
                                 parts[pi].chapters[c].end)

\* a resolved tree with two Parts, the second with two Chapters, or with a
\* Chapter of three Sections
C4_Witness ==
    /\ Resolved
    /\ \/ /\ Len(parts) = 2
          /\ Len(parts[2].chapters) = 2
       \/ \E pi \in PartIdx : \E c \in ChapIdx(pi) :
              Len(parts[pi].chapters[c].sections) = 3

Within(child, parent) == parent.start <= child.start /\ child.end <= parent.end

\* C5: after range resolution every Chapter and loose Section lies within its
\* Part's range and every Section within its Chapter's range.
C5_ChildInParent ==
    Resolved =>
        \A pi \in PartIdx :
            /\ \A o \in OtherIdx(pi) : Within(parts[pi].other_sections[o], parts[pi])
            /\ \A c \in ChapIdx(pi) :
                   /\ Within(parts[pi].chapters[c], parts[pi])
                   /\ \A sc \in SecIdx(pi, c) :
                          Within(parts[pi].chapters[c].sections[sc],
                                 parts[pi].chapters[c])

\* the nodes of a part: the part, its chapters, their sections, its loose
\* sections
Nodes(part) ==
    { <<"part", 0, 0>> }
    \cup { <<"chapter", c, 0>> : c \in 1..Len(part.chapters) }
    \cup UNION { { <<"section", c, sc>> : sc \in 1..Len(part.chapters[c].sections) } :
                   c \in 1..Len(part.chapters) }
    \cup { <<"other", o, 0>> : o \in 1..Len(part.other_sections) }

\* the fragments stored on node a of part
Own(part, a) ==
    CASE a[1] = "part" -> part.part_knowledge
      [] a[1] = "chapter" -> part.chapters[a[2]].chapter_knowledge
      [] a[1] = "section" -> part.chapters[a[2]].sections[a[3]].knowledge
      [] a[1] = "other" -> part.other_sections[a[2]].knowledge

WithoutKnowledge(sec) == [sec EXCEPT !.knowledge = <<>>]

\* the part with every fragment list emptied: titles, ranges and structure
Skeleton(part) ==
    [part EXCEPT
        !.part_knowledge = <<>>,
        !.other_sections = [o \in 1..Len(part.other_sections) |->
                               WithoutKnowledge(part.other_sections[o])],
        !.chapters = [c \in 1..Len(part.chapters) |->
                         [part.chapters[c] EXCEPT
                             !.chapter_knowledge = <<>>,
                             !.sections =
                                 [sc \in 1..Len(part.chapters[c].sections) |->
                                     WithoutKnowledge(part.chapters[c].sections[sc])]]]]

\* node a of part is where the claim sends page p
Destination(part, a, p) ==
    CASE a[1] = "section" ->
             /\ Contains(part.chapters[a[2]], p)
             /\ Contains(part.chapters[a[2]].sections[a[3]], p)
      [] a[1] = "chapter" ->
             /\ Contains(part.chapters[a[2]], p)
             /\ Hits(part.chapters[a[2]].sections, p) = {}
      [] a[1] = "other" ->
             /\ Hits(part.chapters, p) = {}
             /\ Contains(part.other_sections[a[2]], p)
      [] a[1] = "part" ->
             /\ Hits(part.chapters, p) = {}
             /\ Hits(part.other_sections, p) = {}

\* the knowledge routed by the step, read from the log of routed fragments
Routed == SubSeq(routed', Len(routed) + 1, Len(routed'))

RouteStep ==
    LET part == parts[pidx]
        NodesOf == Nodes(part)
    IN  /\ \A j \in PartIdx : j # pidx => parts'[j] = parts[j]
        /\ Len(parts') = Len(parts)
        /\ Skeleton(parts'[pidx]) = Skeleton(part)
        /\ \E a \in NodesOf :
               /\ Destination(part, a, page_i)
               /\ Own(parts'[pidx], a) = Own(part, a) \o Routed
               /\ \A b \in NodesOf \ {a} : Own(parts'[pidx], b) = Own(part, b)

\* C6: routing one page's fragments inside a Part appends them, in order, to
\* exactly one node and leaves every other fragment list and every start/end
\* unchanged; the node is the containing Section of the containing Chapter,
\* else that Chapter, else (no Chapter contains the page) a containing loose
\* Section, else the Part.
C6_RouteFrame == [][(pc = "pages" /\ pc' = "pages") => RouteStep]_vars

\* a page was routed to a Section of a Chapter, another to the Chapter itself
C6_Witness ==
    /\ pc = "pages"
    /\ \E pi \in PartIdx : \E c \in ChapIdx(pi) : \E sc \in SecIdx(pi, c) :
           /\ parts[pi].chapters[c].sections[sc].knowledge # <<>>
           /\ parts[pi].chapters[c].chapter_knowledge # <<>>

RECURSIVE KbChapterFragments(_, _)
KbChapterFragments(chapters, c) ==
    IF c > Len(chapters) THEN <<>>
    ELSE chapters[c].chapter_knowledge \o Concat(chapters[c].sections, 1)
         \o KbChapterFragments(chapters, c + 1)

RECURSIVE KbFragments(_, _)
\* every fragment held in entries k.. of the knowledge base
KbFragments(kb, k) ==
    IF k > Len(kb) THEN <<>>
    ELSE kb[k].part_knowledge \o KbChapterFragments(kb[k].chapters, 1)
         \o Concat(kb[k].other_sections, 1) \o KbFragments(kb, k + 1)

\* C7: after all Parts have been processed, the multiset of fragments held in
\* the knowledge base equals the multiset of all fragments routed during the
\* run, also when two Parts or two Chapters carry the same title.
C7_ExportKeepsAllFragments ==
    pc = "done" =>
        LET held == KbFragments(knowledge_base, 1)
        IN  \A f \in Range(held) \cup Range(routed) :
                Count(f, held) = Count(f, routed)

\* the numbered units emitted for part pi in folder chapter
Numbered(pi, chapter) ==
    { k \in DOMAIN exported :
        /\ exported[k].part = pi
        /\ exported[k].chapter = chapter
        /\ exported[k].prefix # Fmt02(0) }

Folders(pi) == { <<>> } \cup { << parts[pi].chapters[c].title >> : c \in ChapIdx(pi) }

\* C8: the number prefixes of the non-empty Sections of one sibling list (the
\* Sections of a Chapter, the loose Sections of a Part) are exactly 1..k, k
\* the number of non-empty siblings.
C8_PrefixesAreDense ==
    pc = "done" =>
        \A pi \in PartIdx : \A chapter \in Folders(pi) :
            { exported[k].prefix : k \in Numbered(pi, chapter) }
                = { Fmt02(n) : n \in 1..Cardinality(Numbered(pi, chapter)) }

\* the overview units emitted for part pi in folder chapter
Overviews(pi, chapter) ==
    { k \in DOMAIN exported :
        /\ exported[k].part = pi
        /\ exported[k].chapter = chapter
        /\ exported[k].prefix = Fmt02(0) }

\* C9: the combined list of a Part is its own fragments followed by those of
\* its loose Sections in order, with no fragment of its Chapters or their
\* Sections; the combined list of a Chapter is its own fragments followed by
\* those of its Sections in order.
C9_CombinedLists ==
    pc = "done" =>
        \A pi \in PartIdx :
            /\ Cardinality(Overviews(pi, <<>>)) = 1
            /\ \A k \in Overviews(pi, <<>>) :
                   /\ exported[k].knowledge =
                          parts[pi].part_knowledge
                              \o Concat(parts[pi].other_sections, 1)
                   /\ Range(exported[k].knowledge)
                          \cap Range(KbChapterFragments(parts[pi].chapters, 1)) = {}
            /\ \A c \in ChapIdx(pi) :
                   LET ch == parts[pi].chapters[c]
                   IN  /\ Cardinality(Overviews(pi, <<ch.title>>)) = 1
                       /\ \A k \in Overviews(pi, <<ch.title>>) :
                              exported[k].knowledge =
                                  ch.chapter_knowledge \o Concat(ch.sections, 1)

\* the pages of the fragments in list f all have k as the last of the
\* siblings containing them
LastHit(f, nodes, k) == \A x \in Range(f) : k = Max(Hits(nodes, x[2]))

\* C10: when several siblings contain the routed page, the later-declared one
\* receives the fragments: among the Chapters of a Part, among the Sections of
\* the matching Chapter, among the loose Sections of a Part.
C10_LaterSiblingWins ==
    Resolved =>
        \A pi \in PartIdx :
            /\ \A o \in OtherIdx(pi) :
                   LastHit(parts[pi].other_sections[o].knowledge,
                           parts[pi].other_sections, o)
            /\ \A c \in ChapIdx(pi) :
                   LET ch == parts[pi].chapters[c]
                   IN  /\ LastHit(ch.chapter_knowledge, parts[pi].chapters, c)
                       /\ \A sc \in SecIdx(pi, c) :
                              /\ LastHit(ch.sections[sc].knowledge,
                                         parts[pi].chapters, c)
                              /\ LastHit(ch.sections[sc].knowledge, ch.sections, sc)

\* the parts built so far: the closed ones and the current one
Built == IF pc = "build" THEN parts \o current_part ELSE parts

\* the positions of the Part entries among the entries already consumed
PartPositions == { k \in 1..(i - 1) : IsPartEntry(toc[k]) }

\* the position of the entry that began the j-th part
PartPosition(j) ==
    CHOOSE k \in PartPositions : Cardinality({ m \in PartPositions : m <= k }) = j

\* the entries consumed while the j-th part was the current part
Segment(j) ==
    { k \in (PartPosition(j) + 1)..(i - 1) :
        \A m \in PartPositions : m <= PartPosition(j) \/ k < m }

ChapterEntries(j) ==
    { k \in Segment(j) : toc[k].level = 2 /\ CHAPTER_PATTERN(toc[k].title) }

OtherEntries(j) == Segment(j) \ ChapterEntries(j)

SectionNodes(part) == { a \in Nodes(part) : a[1] \in {"section", "other"} }

\* C11: building creates one node per qualifying entry and never removes or
\* replaces one: every Part has as many Chapter nodes as Chapter entries were
\* consumed while it was current, and as many Sections (of Chapters or loose)
\* as Other entries were, also when Chapter titles repeat inside a Part.
C11_OneNodePerEntry ==
    /\ Len(Built) = Cardinality(PartPositions)
    /\ \A j \in 1..Len(Built) :
           /\ Len(Built[j].chapters) = Cardinality(ChapterEntries(j))
           /\ Cardinality(SectionNodes(Built[j])) = Cardinality(OtherEntries(j))

\* the entry consumed by the building step is classified Other
OtherStep ==
    /\ pc = "build"
    /\ i' = i + 1
    /\ ~ IsPartEntry(toc[i])
    /\ ~ IsChapterEntry(toc[i], current_part)

\* the part with the section of entry e appended under the chapter titled t
WithSectionUnder(part, t, e) ==
    [part EXCEPT !.chapters[KeyIndex(part.chapters, t)].sections =
        Append(@, NewSection(e.title, e.level, e.page - 1))]

WithLooseSection(part, e) ==
    [part EXCEPT !.other_sections =
        Append(@, NewSection(e.title, e.level, e.page - 1))]

\* C12: an Other entry becomes a Section of the Chapter created by the most
\* recent Chapter entry since the current Part began, if there is one; else a
\* loose Section of the current Part, if there is one; else no node is
\* created and building goes on.
C12_OtherEntryAttached ==
    [][OtherStep =>
          /\ parts' = parts
          /\ pc' = "build"
          /\ IF current_part = <<>>
             THEN current_part' = <<>>
             ELSE LET recent == ChapterEntries(Len(Built))
                  IN  IF recent # {}
                      THEN current_part' =
                               << WithSectionUnder(current_part[1],
                                                   toc[Max(recent)].title, toc[i]) >>
                      ELSE current_part' =
                               << WithLooseSection(current_part[1], toc[i]) >>]_vars

====
